---- MODULE Spec2Model ----
(***************************************************************************)
(* Minesweeper (src/src/App.tsx): the App game loop, the GameGrid board    *)
(* generation (generateInitialGrid, countAdjacentBombs) and the two tile   *)
(* handlers (uncoverTile with its recursive cascade, toggleFlag).          *)
(*                                                                         *)
(* Arrays keep the source's 0-based indexing: tiles and tileStates are     *)
(* functions over 0 .. width*height-1.  A handler runs to completion and   *)
(* React commits its state updates before the next event is dispatched, so *)
(* in Spec one handler call is one step.  SpecBatched lets several handler *)
(* calls run on one rendered state before React renders; SpecFaults adds   *)
(* handler calls with an index outside the grid.  While GameGrid is not    *)
(* mounted its state does not exist; tiles and tileStates are then the     *)
(* empty function.                                                         *)
(***************************************************************************)
EXTENDS Integers, Naturals, Sequences, FiniteSets, TLC

VARIABLES
    width, height, numBombs,   \* App state (App.tsx:45-47)
    gameOver, didWin,          \* App state (App.tsx:48-49)
    gameStarted,               \* App state (App.tsx:50)
    tiles,                     \* GameGrid state: the layout (App.tsx:238)
    tileStates,                \* GameGrid state: isOpen / isFlagged per tile (App.tsx:239)
    last,                      \* the handler that ran last: its calls of setTileStates and onGameOver
    queue,                     \* the handler calls whose state updates React has not rendered yet
    error                      \* the last uncaught error: where it was thrown, "none" before any

vars == <<width, height, numBombs, gameOver, didWin, gameStarted, tiles, tileStates, last,
          queue, error>>

----------------------------------------------------------------------------
(* Bounds of the model *)

MaxWidth == 3
MaxHeight == 3
MaxCells == 6
MaxBombs == 3
MaxFlags == 1
MaxPending == 2
MaxBatchedCells == 4

(* Program constants *)

DefaultWidth == 10
DefaultHeight == 10
DefaultNumBombs == 10

----------------------------------------------------------------------------
(* Tiles *)

BombTile(index) == [index |-> index, type |-> "bomb", adjacentBombs |-> 0]

NumberTile(index, adjacentBombs) ==
    [index |-> index, type |-> "number", adjacentBombs |-> adjacentBombs]

EmptyTile(index) == [index |-> index, type |-> "empty", adjacentBombs |-> 0]

ClosedTileState == [isOpen |-> FALSE, isFlagged |-> FALSE]

Unmounted == [i \in {} |-> ClosedTileState]

Offsets == <<-1, 0, 1>>

\* The (i, j) pairs in the order the two nested for loops visit them.
LoopOffsets == [k \in 1..9 |-> <<Offsets[((k - 1) \div 3) + 1], Offsets[((k - 1) % 3) + 1]>>]

InGrid(newRow, newCol, w, h) ==
    newRow >= 0 /\ newRow < h /\ newCol >= 0 /\ newCol < w

----------------------------------------------------------------------------
(* Board generation *)

\* countAdjacentBombs without the check of the column: a neighbour index that
\* is in the array counts, so a row's end touches the next row's start.
countAdjacentBombsWrapping(index, positions, w, h) ==
    Cardinality({k \in 1..9 :
        LET newIndex == index + LoopOffsets[k][1] * w + LoopOffsets[k][2]
        IN  /\ newIndex >= 0 /\ newIndex < w * h
            /\ positions[newIndex].type = "bomb"})

countAdjacentBombs(index, positions, w, h) ==
    LET row == index \div w
        col == index % w
    IN  Cardinality({k \in 1..9 :
            LET newRow == row + LoopOffsets[k][1]
                newCol == col + LoopOffsets[k][2]
            IN  /\ InGrid(newRow, newCol, w, h)
                /\ positions[newRow * w + newCol].type = "bomb"})

\* The while loop that places the bombs: every array the loop can end with.
\* A draw that hits a bomb changes nothing and the loop draws again.
RECURSIVE PlaceBombs(_, _, _)
PlaceBombs(positions, bombsPlaced, numBoms) ==
    IF ~(bombsPlaced < numBoms)
    THEN {positions}
    ELSE UNION {
            IF positions[randomIndex].type = "empty"
            THEN PlaceBombs([positions EXCEPT ![randomIndex] = BombTile(randomIndex)],
                            bombsPlaced + 1, numBoms)
            ELSE {}
            : randomIndex \in DOMAIN positions}

CalculateNumbers(positions, w, h) ==
    [index \in DOMAIN positions |->
        IF positions[index].type = "bomb"
        THEN positions[index]
        ELSE LET adjacentBombs == countAdjacentBombs(index, positions, w, h)
             IN  IF adjacentBombs > 0
                 THEN NumberTile(index, adjacentBombs)
                 ELSE EmptyTile(index)]

generateInitialGrid(w, h, numBoms) ==
    LET positions == [index \in 0..(w * h - 1) |-> EmptyTile(index)]
    IN  {CalculateNumbers(p, w, h) : p \in PlaceBombs(positions, 0, numBoms)}

\* The initial tileStates with every tile open.
InitialTileStatesOpen(w, h) ==
    [index \in 0..(w * h - 1) |-> [isOpen |-> TRUE, isFlagged |-> FALSE]]

InitialTileStates(w, h) == [index \in 0..(w * h - 1) |-> ClosedTileState]

----------------------------------------------------------------------------
(* uncoverTile *)

\* RevealAllBombs without the spread of the old tile state: the flag is lost.
RevealAllBombsDroppingFlags(tls, newTileStates) ==
    [i \in DOMAIN newTileStates |->
        IF tls[i].type = "bomb"
        THEN [isOpen |-> TRUE, isFlagged |-> FALSE]
        ELSE newTileStates[i]]

\* RevealAllBombs that passes over the bombs that carry a flag.
RevealAllBombsSparingFlagged(tls, newTileStates) ==
    [i \in DOMAIN newTileStates |->
        IF tls[i].type = "bomb" /\ ~newTileStates[i].isFlagged
        THEN [newTileStates[i] EXCEPT !.isOpen = TRUE]
        ELSE newTileStates[i]]

RevealAllBombs(tls, newTileStates) ==
    [i \in DOMAIN newTileStates |->
        IF tls[i].type = "bomb"
        THEN [newTileStates[i] EXCEPT !.isOpen = TRUE]
        ELSE newTileStates[i]]

RECURSIVE cascade(_, _, _, _, _)
RECURSIVE cascadeNeighbours(_, _, _, _, _, _)

\* cascade that goes on through number tiles as through empty ones.
cascadeThroughNumbers(tls, w, h, newTileStates, idx) ==
    IF \/ idx < 0
       \/ idx >= w * h
       \/ newTileStates[idx].isOpen
       \/ tls[idx].type = "bomb"
    THEN newTileStates
    ELSE cascadeNeighbours(tls, w, h, [newTileStates EXCEPT ![idx].isOpen = TRUE], idx, 1)

\* cascade that a flagged tile stops.
cascadeStoppedByFlags(tls, w, h, newTileStates, idx) ==
    IF \/ idx < 0
       \/ idx >= w * h
       \/ newTileStates[idx].isOpen
       \/ newTileStates[idx].isFlagged
       \/ tls[idx].type = "bomb"
    THEN newTileStates
    ELSE LET opened == [newTileStates EXCEPT ![idx].isOpen = TRUE]
         IN  IF tls[idx].type = "empty"
             THEN cascadeNeighbours(tls, w, h, opened, idx, 1)
             ELSE opened

cascade(tls, w, h, newTileStates, idx) ==
    IF \/ idx < 0
       \/ idx >= w * h
       \/ newTileStates[idx].isOpen
       \/ tls[idx].type = "bomb"
    THEN newTileStates
    ELSE LET opened == [newTileStates EXCEPT ![idx].isOpen = TRUE]
         IN  IF tls[idx].type = "empty"
             THEN cascadeNeighbours(tls, w, h, opened, idx, 1)
             ELSE opened

\* cascadeNeighbours without the test of lines 345-350: every neighbour index
\* is handed to cascade, whose own guard only keeps it inside the array.
cascadeNeighboursWrapping(tls, w, h, newTileStates, idx, k) ==
    IF k > 9
    THEN newTileStates
    ELSE LET newRow == (idx \div w) + LoopOffsets[k][1]
             newCol == (idx % w) + LoopOffsets[k][2]
             visited == cascade(tls, w, h, newTileStates, newRow * w + newCol)
         IN  cascadeNeighbours(tls, w, h, visited, idx, k + 1)

\* cascadeNeighbours whose outer loop ends at i = 0: the row below is left out.
cascadeNeighboursUpperRows(tls, w, h, newTileStates, idx, k) ==
    IF k > 6
    THEN newTileStates
    ELSE LET newRow == (idx \div w) + LoopOffsets[k][1]
             newCol == (idx % w) + LoopOffsets[k][2]
             visited == IF InGrid(newRow, newCol, w, h)
                        THEN cascade(tls, w, h, newTileStates, newRow * w + newCol)
                        ELSE newTileStates
         IN  cascadeNeighbours(tls, w, h, visited, idx, k + 1)

\* The two nested for loops of cascade, from the k-th (i, j) pair on.
cascadeNeighbours(tls, w, h, newTileStates, idx, k) ==
    IF k > 9
    THEN newTileStates
    ELSE LET newRow == (idx \div w) + LoopOffsets[k][1]
             newCol == (idx % w) + LoopOffsets[k][2]
             visited == IF InGrid(newRow, newCol, w, h)
                        THEN cascade(tls, w, h, newTileStates, newRow * w + newCol)
                        ELSE newTileStates
         IN  cascadeNeighbours(tls, w, h, visited, idx, k + 1)

\* cascade together with the record of its work: run.states is newTileStates
\* and run.marks lists, in order, the indices it has set isOpen on.
RECURSIVE cascadeMarks(_, _, _, _, _)
RECURSIVE cascadeMarksNeighbours(_, _, _, _, _, _)

\* cascadeMarks whose already-open guard does not hold for number tiles.
cascadeMarksRevisitingNumbers(tls, w, h, run, idx) ==
    IF \/ idx < 0
       \/ idx >= w * h
       \/ (run.states[idx].isOpen /\ tls[idx].type # "number")
       \/ tls[idx].type = "bomb"
    THEN run
    ELSE LET marked == [states |-> [run.states EXCEPT ![idx].isOpen = TRUE],
                        marks |-> Append(run.marks, idx)]
         IN  IF tls[idx].type = "empty"
             THEN cascadeMarksNeighbours(tls, w, h, marked, idx, 1)
             ELSE marked

cascadeMarks(tls, w, h, run, idx) ==
    IF \/ idx < 0
       \/ idx >= w * h
       \/ run.states[idx].isOpen
       \/ tls[idx].type = "bomb"
    THEN run
    ELSE LET marked == [states |-> [run.states EXCEPT ![idx].isOpen = TRUE],
                        marks |-> Append(run.marks, idx)]
         IN  IF tls[idx].type = "empty"
             THEN cascadeMarksNeighbours(tls, w, h, marked, idx, 1)
             ELSE marked

cascadeMarksNeighbours(tls, w, h, run, idx, k) ==
    IF k > 9
    THEN run
    ELSE LET newRow == (idx \div w) + LoopOffsets[k][1]
             newCol == (idx % w) + LoopOffsets[k][2]
             visited == IF InGrid(newRow, newCol, w, h)
                        THEN cascadeMarks(tls, w, h, run, newRow * w + newCol)
                        ELSE run
         IN  cascadeMarksNeighbours(tls, w, h, visited, idx, k + 1)

\* The win check's count without the test of the tile's type.
unopenedTiles(tls, newTileStates) ==
    Cardinality({i \in DOMAIN tls : ~newTileStates[i].isOpen})

unopenedNonBombs(tls, newTileStates) ==
    Cardinality({i \in DOMAIN tls : tls[i].type # "bomb" /\ ~newTileStates[i].isOpen})

FlagAllBombs(tls, newTileStates) ==
    [i \in DOMAIN newTileStates |->
        IF tls[i].type = "bomb"
        THEN [newTileStates[i] EXCEPT !.isFlagged = TRUE]
        ELSE newTileStates[i]]

\* uncoverTile without its early return on an open tile.
uncoverTileCallWithoutGuard(tls, w, h, states, index) ==
    IF tls[index].type = "bomb"
    THEN [tileStates |-> RevealAllBombs(tls, states), setTileStates |-> 1,
          onGameOver |-> <<FALSE>>]
    ELSE LET newTileStates == cascade(tls, w, h, states, index)
         IN  IF unopenedNonBombs(tls, newTileStates) = 0
             THEN [tileStates |-> FlagAllBombs(tls, newTileStates), setTileStates |-> 2,
                   onGameOver |-> <<TRUE>>]
             ELSE [tileStates |-> newTileStates, setTileStates |-> 1,
                   onGameOver |-> <<>>]

\* uncoverTile that spares the player on the first click: a bomb clicked while
\* no tile is open yet is not revealed.
uncoverTileCallFirstClickSafe(tls, w, h, states, index) ==
    IF states[index].isOpen \/ (tls[index].type = "bomb" /\ \A i \in DOMAIN states : ~states[i].isOpen)
    THEN [tileStates |-> states, setTileStates |-> 0, onGameOver |-> <<>>]
    ELSE IF tls[index].type = "bomb"
    THEN [tileStates |-> RevealAllBombs(tls, states), setTileStates |-> 1,
          onGameOver |-> <<FALSE>>]
    ELSE LET newTileStates == cascade(tls, w, h, states, index)
         IN  IF unopenedNonBombs(tls, newTileStates) = 0
             THEN [tileStates |-> FlagAllBombs(tls, newTileStates), setTileStates |-> 2,
                   onGameOver |-> <<TRUE>>]
             ELSE [tileStates |-> newTileStates, setTileStates |-> 1,
                   onGameOver |-> <<>>]

\* What one call of uncoverTile(index) does: the tileStates it leaves (the
\* closure's own when it returns early), how often it called setTileStates
\* and the arguments of its onGameOver calls.
uncoverTileCall(tls, w, h, states, index) ==
    IF states[index].isOpen
    THEN [tileStates |-> states, setTileStates |-> 0, onGameOver |-> <<>>]
    ELSE IF tls[index].type = "bomb"
    THEN [tileStates |-> RevealAllBombs(tls, states), setTileStates |-> 1,
          onGameOver |-> <<FALSE>>]
    ELSE LET newTileStates == cascade(tls, w, h, states, index)
         IN  IF unopenedNonBombs(tls, newTileStates) = 0
             THEN [tileStates |-> FlagAllBombs(tls, newTileStates), setTileStates |-> 2,
                   onGameOver |-> <<TRUE>>]
             ELSE [tileStates |-> newTileStates, setTileStates |-> 1,
                   onGameOver |-> <<>>]

----------------------------------------------------------------------------
(* toggleFlag *)

\* The updater without the spread of the old tile state: the tile closes.
toggleFlagUpdaterDroppingOpen(prev, index) ==
    [prev EXCEPT ![index] = [isOpen |-> FALSE, isFlagged |-> ~prev[index].isFlagged]]

\* The updater that leaves an open tile alone.
toggleFlagUpdaterClosedOnly(prev, index) ==
    IF prev[index].isOpen
    THEN prev
    ELSE [prev EXCEPT ![index].isFlagged = ~prev[index].isFlagged]

toggleFlagUpdater(prev, index) ==
    [prev EXCEPT ![index].isFlagged = ~prev[index].isFlagged]

----------------------------------------------------------------------------
(* Helpers over the state *)

Indices == DOMAIN tiles

OpenSet(states) == {i \in DOMAIN states : states[i].isOpen}

FlaggedSet(states) == {i \in DOMAIN states : states[i].isFlagged}

Bombs(tls) == {i \in DOMAIN tls : tls[i].type = "bomb"}

\* What App renders below the instructions.
GameConfigScreenShown == ~gameStarted

GameGridShown == gameStarted

GameOverScreenShown == gameOver

----------------------------------------------------------------------------
(* The state machine *)

Init ==
    /\ width = DefaultWidth
    /\ height = DefaultHeight
    /\ numBombs = DefaultNumBombs
    /\ gameOver = FALSE
    /\ didWin = FALSE
    /\ gameStarted = FALSE
    /\ tiles = Unmounted
    /\ tileStates = Unmounted
    /\ last = [op |-> "init", setTileStates |-> 0, onGameOver |-> <<>>]
    /\ queue = <<>>
    /\ error = "none"

\* isValid with maxBombs one too large: a board of bombs only passes.
isValidOffByOne(w, h, n) ==
    LET maxBombs == w * h
    IN  n > 0 /\ n <= maxBombs

isValid(w, h, n) ==
    LET maxBombs == w * h - 1
    IN  n > 0 /\ n <= maxBombs

\* GameConfigScreen.onConfirm -> App.onConfig, then GameGrid mounts: its
\* useState initialisers and its mount effect generate the layout and the
\* all-closed tileStates (the effect's layout replaces the initialiser's).
onConfig(w, h, n) ==
    /\ ~gameStarted
    /\ error # "render"
    /\ isValid(w, h, n)
    /\ width' = w
    /\ height' = h
    /\ numBombs' = n
    /\ gameStarted' = TRUE
    /\ gameOver' = FALSE
    /\ didWin' = FALSE
    /\ tiles' \in generateInitialGrid(w, h, n)
    /\ tileStates' = InitialTileStates(w, h)
    /\ last' = [op |-> "onConfig", setTileStates |-> 0, onGameOver |-> <<>>]
    /\ UNCHANGED <<queue, error>>

\* GameConfigScreen.onConfirm while isValid is false (the button is disabled
\* and onConfirm calls nothing): App.onConfig is not called.
onConfirmInvalid(w, h, n) ==
    /\ ~gameStarted
    /\ error # "render"
    /\ ~isValid(w, h, n)
    /\ last' = [op |-> "onConfirm", setTileStates |-> 0, onGameOver |-> <<>>]
    /\ UNCHANGED <<width, height, numBombs, gameOver, didWin, gameStarted, tiles,
                   tileStates, queue, error>>

\* onRestart without setGameOver(false).
onRestartKeepingGameOver ==
    /\ gameOver
    /\ gameStarted' = FALSE
    /\ didWin' = FALSE
    /\ tiles' = Unmounted
    /\ tileStates' = Unmounted
    /\ last' = [op |-> "onRestart", setTileStates |-> 0, onGameOver |-> <<>>]
    /\ UNCHANGED <<width, height, numBombs, gameOver, queue, error>>

\* GameOverScreen's Restart button; GameGrid unmounts.
onRestart ==
    /\ gameOver
    /\ gameStarted' = FALSE
    /\ gameOver' = FALSE
    /\ didWin' = FALSE
    /\ tiles' = Unmounted
    /\ tileStates' = Unmounted
    /\ last' = [op |-> "onRestart", setTileStates |-> 0, onGameOver |-> <<>>]
    /\ UNCHANGED <<width, height, numBombs, queue, error>>

\* App's onGameOver prop: gameOver and didWin after the calls a handler made,
\* in order, starting from the values over and won.
AfterGameOver(calls, over, won) ==
    IF calls = <<>>
    THEN [gameOver |-> over, didWin |-> won]
    ELSE [gameOver |-> TRUE, didWin |-> calls[Len(calls)]]

onGameOver(calls) ==
    /\ gameOver' = AfterGameOver(calls, gameOver, didWin).gameOver
    /\ didWin' = AfterGameOver(calls, gameOver, didWin).didWin

uncoverTile(index) ==
    /\ gameStarted
    /\ index \in Indices
    /\ LET call == uncoverTileCall(tiles, width, height, tileStates, index)
       IN  /\ tileStates' = call.tileStates
           /\ onGameOver(call.onGameOver)
           /\ last' = [op |-> "uncoverTile", setTileStates |-> call.setTileStates,
                       onGameOver |-> call.onGameOver]
    /\ UNCHANGED <<width, height, numBombs, gameStarted, tiles, queue, error>>

toggleFlag(index) ==
    /\ gameStarted
    /\ index \in Indices
    /\ \/ tileStates[index].isFlagged
       \/ Cardinality(FlaggedSet(tileStates)) < MaxFlags
    /\ tileStates' = toggleFlagUpdater(tileStates, index)
    /\ last' = [op |-> "toggleFlag", setTileStates |-> 1, onGameOver |-> <<>>]
    /\ UNCHANGED <<width, height, numBombs, gameOver, didWin, gameStarted, tiles,
                   queue, error>>

Next ==
    \/ \E w \in 1..MaxWidth, h \in 1..MaxHeight, n \in 0..MaxBombs :
          w * h <= MaxCells /\ onConfig(w, h, n)
    \/ \E w \in 1..MaxWidth, h \in 1..MaxHeight, n \in 0..MaxBombs :
          w * h <= MaxCells /\ onConfirmInvalid(w, h, n)
    \/ onRestart
    \/ \E index \in Indices : uncoverTile(index)
    \/ \E index \in Indices : toggleFlag(index)

Spec == Init /\ [][Next]_vars

----------------------------------------------------------------------------
(* Handler calls with an index outside the grid *)

\* The indices just outside the arrays, at either end.
OutOfRange == {-1, width * height}

\* tileStates[index] is undefined for such an index.
IsUndefined(states, index) == index \notin DOMAIN states

\* uncoverTile reads tileStates[index].isOpen first: a TypeError leaves the
\* handler before it has set anything.
uncoverTileOutOfRange(index) ==
    /\ gameStarted
    /\ IsUndefined(tileStates, index)
    /\ error' = "uncoverTile"
    /\ last' = [op |-> "uncoverTile", setTileStates |-> 0, onGameOver |-> <<>>]
    /\ UNCHANGED <<width, height, numBombs, gameOver, didWin, gameStarted, tiles,
                   tileStates, queue>>

\* toggleFlag only hands its updater to setTileStates and returns.  React
\* runs the updater when it renders: reading newStates[index].isFlagged is a
\* TypeError there, App has no error boundary, and React unmounts the tree
\* with all its state.
toggleFlagOutOfRange(index) ==
    /\ gameStarted
    /\ IsUndefined(tileStates, index)
    /\ error' = "render"
    /\ gameStarted' = FALSE
    /\ gameOver' = FALSE
    /\ didWin' = FALSE
    /\ tiles' = Unmounted
    /\ tileStates' = Unmounted
    /\ last' = [op |-> "toggleFlag", setTileStates |-> 1, onGameOver |-> <<>>]
    /\ UNCHANGED <<width, height, numBombs, queue>>

NextFaults ==
    \/ Next
    \/ \E index \in OutOfRange : uncoverTileOutOfRange(index)
    \/ \E index \in OutOfRange : toggleFlagOutOfRange(index)

SpecFaults == Init /\ [][NextFaults]_vars

----------------------------------------------------------------------------
(* Handler calls that React batches: several calls run with the closure of *)
(* one render, and their updates are applied when React renders next.      *)

\* uncoverTile(index) of the rendered closure: it reads the closure's
\* tileStates and passes the array it built to setTileStates as a value.
uncoverTileBatched(index) ==
    /\ gameStarted
    /\ index \in Indices
    /\ Len(queue) < MaxPending
    /\ LET call == uncoverTileCall(tiles, width, height, tileStates, index)
       IN  /\ queue' = Append(queue,
                  [op |-> "uncoverTile", index |-> index,
                   value |-> IF call.setTileStates = 0 THEN <<>> ELSE <<call.tileStates>>,
                   onGameOver |-> call.onGameOver])
           /\ last' = [op |-> "uncoverTile", setTileStates |-> call.setTileStates,
                       onGameOver |-> call.onGameOver]
    /\ UNCHANGED <<width, height, numBombs, gameOver, didWin, gameStarted, tiles,
                   tileStates, error>>

\* toggleFlag(index): it passes an updater function to setTileStates.
toggleFlagBatched(index) ==
    /\ gameStarted
    /\ index \in Indices
    /\ Len(queue) < MaxPending
    /\ \/ tileStates[index].isFlagged
       \/ Cardinality(FlaggedSet(tileStates)) < MaxFlags
    /\ queue' = Append(queue, [op |-> "toggleFlag", index |-> index,
                               value |-> <<>>, onGameOver |-> <<>>])
    /\ last' = [op |-> "toggleFlag", setTileStates |-> 1, onGameOver |-> <<>>]
    /\ UNCHANGED <<width, height, numBombs, gameOver, didWin, gameStarted, tiles,
                   tileStates, error>>

\* React's processing of the queued setTileStates calls, in order: a value
\* replaces the state, an updater is applied to the state reached so far.
RECURSIVE ApplyUpdates(_, _)
ApplyUpdates(states, updates) ==
    IF updates = <<>>
    THEN states
    ELSE LET u == Head(updates)
             next == IF u.op = "toggleFlag"
                     THEN toggleFlagUpdater(states, u.index)
                     ELSE IF u.value = <<>> THEN states ELSE u.value[1]
         IN  ApplyUpdates(next, Tail(updates))

\* The queued setGameOver / setDidWin calls, in order.
RECURSIVE ApplyGameOver(_, _, _)
ApplyGameOver(over, won, updates) ==
    IF updates = <<>>
    THEN [gameOver |-> over, didWin |-> won]
    ELSE LET after == AfterGameOver(Head(updates).onGameOver, over, won)
         IN  ApplyGameOver(after.gameOver, after.didWin, Tail(updates))

Render ==
    /\ queue # <<>>
    /\ tileStates' = ApplyUpdates(tileStates, queue)
    /\ gameOver' = ApplyGameOver(gameOver, didWin, queue).gameOver
    /\ didWin' = ApplyGameOver(gameOver, didWin, queue).didWin
    /\ queue' = <<>>
    /\ last' = [op |-> "render", setTileStates |-> 0, onGameOver |-> <<>>]
    /\ UNCHANGED <<width, height, numBombs, gameStarted, tiles, error>>

NextBatched ==
    \/ \E w \in 1..MaxWidth, h \in 1..MaxHeight, n \in 1..MaxBombs :
          w * h <= MaxBatchedCells /\ onConfig(w, h, n)
    \/ queue = <<>> /\ onRestart
    \/ \E index \in Indices : uncoverTileBatched(index)
    \/ \E index \in Indices : toggleFlagBatched(index)
    \/ Render

SpecBatched == Init /\ [][NextBatched]_vars

----------------------------------------------------------------------------
(* Definitions the properties are stated with, independent of the handlers *)

IsHandlerStep == last'.op \in {"uncoverTile", "toggleFlag"}

Abs(x) == IF x < 0 THEN -x ELSE x

\* a and b are distinct cells of a grid of width w that touch, corners included.
Adjacent(a, b, w) ==
    /\ a # b
    /\ Abs((a \div w) - (b \div w)) <= 1
    /\ Abs((a % w) - (b % w)) <= 1

NeighboursOf(S, w) == {b \in Indices : \E a \in S : Adjacent(a, b, w)}

\* The 8-connected region of empty tiles that contains the empty tile of S.
RECURSIVE EmptyRegion(_)
EmptyRegion(S) ==
    LET grown == S \cup {b \in NeighboursOf(S, width) : tiles[b].type = "empty"}
    IN  IF grown = S THEN S ELSE EmptyRegion(grown)

\* What revealing the closed non-bomb tile i is to reveal.
RevealRegion(i) ==
    IF tiles[i].type = "number"
    THEN {i}
    ELSE LET region == EmptyRegion({i})
         IN  region \cup {b \in NeighboursOf(region, width) : tiles[b].type = "number"}

AllNonBombsOpen(states) ==
    \A i \in Indices : tiles[i].type # "bomb" => states[i].isOpen

----------------------------------------------------------------------------
(* C1: after Won or Lost has been reached, a further reveal or toggleFlag  *)
(* on any index leaves every tile's revealed and flagged value as it was.  *)
TerminalStateFrozen ==
    [][(gameOver /\ IsHandlerStep) => tileStates' = tileStates]_vars

(* C2: once Won or Lost has been reported, no later reveal or toggleFlag   *)
(* makes the game report a different outcome.                              *)
ReportedOutcomeStable ==
    [][(gameOver /\ IsHandlerStep) => (gameOver' /\ didWin' = didWin)]_vars

(* C3: revealing a closed non-bomb tile i opens exactly its region: i      *)
(* alone when it is a number, the connected empty region of i with the     *)
(* numbers bordering it when it is empty; no bomb opens and no tile        *)
(* outside the region changes its revealed value.                          *)
CascadeRevealsRegion ==
    \A i \in Indices :
        (~tileStates[i].isOpen /\ tiles[i].type # "bomb")
        => LET call == uncoverTileCall(tiles, width, height, tileStates, i)
           IN  /\ OpenSet(call.tileStates) = OpenSet(tileStates) \cup RevealRegion(i)
               /\ RevealRegion(i) \cap Bombs(tiles) = {}

CascadeRevealsRegionWitness ==
    /\ gameStarted /\ ~gameOver
    /\ last = [op |-> "uncoverTile", setTileStates |-> 1, onGameOver |-> <<>>]
    /\ \E i \in Indices :
          /\ tiles[i].type = "empty"
          /\ Cardinality(EmptyRegion({i})) >= 2
          /\ OpenSet(tileStates) = RevealRegion(i)
          /\ \E b \in RevealRegion(i) : tiles[b].type = "number"

(* C4: a reveal of a closed non-bomb tile reports Won exactly when no      *)
(* non-bomb tile is left closed after the cascade, and then every bomb is  *)
(* flagged; otherwise it reports nothing, the outcome stays what it was    *)
(* and no flag changes.                                                    *)
WinCheckAfterReveal ==
    \A i \in Indices :
        (~tileStates[i].isOpen /\ tiles[i].type # "bomb")
        => LET call == uncoverTileCall(tiles, width, height, tileStates, i)
               after == AfterGameOver(call.onGameOver, gameOver, didWin)
           IN  IF AllNonBombsOpen(call.tileStates)
               THEN /\ call.onGameOver = <<TRUE>>
                    /\ after.gameOver /\ after.didWin
                    /\ Bombs(tiles) \subseteq FlaggedSet(call.tileStates)
               ELSE /\ call.onGameOver = <<>>
                    /\ after.gameOver = gameOver /\ after.didWin = didWin
                    /\ FlaggedSet(call.tileStates) = FlaggedSet(tileStates)

WinCheckAfterRevealWitness ==
    /\ gameStarted /\ gameOver /\ didWin
    /\ last = [op |-> "uncoverTile", setTileStates |-> 2, onGameOver |-> <<TRUE>>]
    /\ AllNonBombsOpen(tileStates)
    /\ Cardinality(Bombs(tiles)) >= 2
    /\ Bombs(tiles) \subseteq FlaggedSet(tileStates)
    /\ Bombs(tiles) \cap OpenSet(tileStates) = {}

(* C5: revealing a closed bomb opens every bomb, leaves the revealed value *)
(* of every non-bomb tile and the flagged value of every tile as they      *)
(* were, and reports Lost.                                                 *)
LossDisclosure ==
    [][\A i \in Indices :
          (/\ last'.op = "uncoverTile"
           /\ ~tileStates[i].isOpen
           /\ tiles[i].type = "bomb"
           /\ uncoverTile(i))
          => /\ Bombs(tiles) \subseteq OpenSet(tileStates')
             /\ OpenSet(tileStates') \ Bombs(tiles) = OpenSet(tileStates) \ Bombs(tiles)
             /\ FlaggedSet(tileStates') = FlaggedSet(tileStates)
             /\ last'.onGameOver = <<FALSE>>
             /\ gameOver' /\ ~didWin']_vars

LossDisclosureWitness ==
    /\ gameStarted /\ gameOver /\ ~didWin
    /\ last = [op |-> "uncoverTile", setTileStates |-> 1, onGameOver |-> <<FALSE>>]
    /\ Cardinality(Bombs(tiles)) >= 2
    /\ Bombs(tiles) \subseteq OpenSet(tileStates)
    /\ OpenSet(tileStates) \ Bombs(tiles) # {}
    /\ ~AllNonBombsOpen(tileStates)
    /\ FlaggedSet(tileStates) # {}

(* C6: every generated board has exactly numBombs bombs, and every other  *)
(* tile is a number tile carrying the count n of bombs among its in-grid   *)
(* neighbours when 1 <= n <= 8 and an empty tile when there are none.      *)
GeneratedBoardWellFormed ==
    gameStarted =>
        /\ width >= 1 /\ height >= 1
        /\ numBombs >= 1 /\ numBombs <= width * height - 1
        /\ DOMAIN tiles = 0..(width * height - 1)
        /\ Cardinality(Bombs(tiles)) = numBombs
        /\ \A i \in Indices :
              LET n == Cardinality({j \in Bombs(tiles) : Adjacent(i, j, width)})
              IN  \/ tiles[i].type = "bomb"
                  \/ tiles[i].type = "number" /\ tiles[i].adjacentBombs = n
                        /\ n >= 1 /\ n <= 8
                  \/ tiles[i].type = "empty" /\ n = 0

GeneratedBoardWellFormedWitness ==
    /\ gameStarted
    /\ last.op = "onConfig"
    /\ width >= 2 /\ height >= 2
    /\ numBombs >= 2
    /\ \E i \in Indices : tiles[i].type = "number" /\ tiles[i].adjacentBombs >= 2
    /\ \E i \in Indices : tiles[i].type = "empty"

WithFlags(states, F) == [i \in DOMAIN states |-> [states[i] EXCEPT !.isFlagged = (i \in F)]]

\* The flaggings a state is compared with: none, all, and its own inverted.
FlagVariants == {{}, Indices, Indices \ FlaggedSet(tileStates)}

(* C7: flags never influence a reveal: with the same layout and the same   *)
(* revealed values, a reveal of the same index opens the same tiles and    *)
(* reports the same outcome whatever the flagged values are.               *)
FlagsDoNotInfluenceReveal ==
    \A i \in Indices : \A F \in FlagVariants :
        LET call == uncoverTileCall(tiles, width, height, tileStates, i)
            other == uncoverTileCall(tiles, width, height, WithFlags(tileStates, F), i)
        IN  /\ OpenSet(other.tileStates) = OpenSet(call.tileStates)
            /\ other.onGameOver = call.onGameOver

FlagsDoNotInfluenceRevealWitness ==
    /\ gameStarted /\ ~gameOver
    /\ last = [op |-> "uncoverTile", setTileStates |-> 1, onGameOver |-> <<>>]
    /\ \E j \in Indices :
          /\ tiles[j].type = "empty"
          /\ tileStates[j].isFlagged
          /\ Cardinality(EmptyRegion({j})) >= 2
          /\ OpenSet(tileStates) = RevealRegion(j)

(* C8: within one game a tile that is revealed stays revealed across every *)
(* reveal and toggleFlag.                                                  *)
RevealedMonotonic ==
    [][(gameStarted /\ gameStarted') => OpenSet(tileStates) \subseteq OpenSet(tileStates')]_vars

RevealedMonotonicWitness ==
    /\ gameStarted
    /\ last.op = "toggleFlag"
    /\ \E i \in Indices : tileStates[i].isOpen /\ tileStates[i].isFlagged
    /\ \E i \in Indices : tileStates[i].isOpen /\ ~tileStates[i].isFlagged

(* C9: a reveal of a tile that is already revealed changes no tile state,  *)
(* does not run the win/loss logic and reports no outcome.                 *)
RevealOpenTileIsNoOp ==
    [][\A i \in Indices :
          (last'.op = "uncoverTile" /\ tileStates[i].isOpen /\ uncoverTile(i))
          => /\ tileStates' = tileStates
             /\ last'.setTileStates = 0
             /\ last'.onGameOver = <<>>
             /\ gameOver' = gameOver /\ didWin' = didWin]_vars

RevealOpenTileIsNoOpWitness ==
    /\ gameStarted /\ gameOver
    /\ last = [op |-> "uncoverTile", setTileStates |-> 0, onGameOver |-> <<>>]
    /\ Bombs(tiles) \subseteq OpenSet(tileStates)

(* C10: toggleFlag(index) flips the flagged value of that tile, revealed   *)
(* or not, and changes nothing else: no other flag, no revealed value, not *)
(* the layout; it reports no outcome.                                      *)
ToggleFlagFrame ==
    [][\A i \in Indices :
          (last'.op = "toggleFlag" /\ toggleFlag(i))
          => /\ tileStates'[i].isFlagged = ~tileStates[i].isFlagged
             /\ tileStates'[i].isOpen = tileStates[i].isOpen
             /\ \A j \in Indices \ {i} : tileStates'[j] = tileStates[j]
             /\ DOMAIN tileStates' = DOMAIN tileStates
             /\ tiles' = tiles
             /\ last'.onGameOver = <<>>
             /\ gameOver' = gameOver /\ didWin' = didWin]_vars

ToggleFlagFrameWitness ==
    /\ gameStarted /\ ~gameOver
    /\ last.op = "toggleFlag"
    /\ \E i \in Indices : FlaggedSet(tileStates) = {i} /\ tileStates[i].isOpen

(* C11: a configuration whose bomb count is outside 1 .. width*height-1   *)
(* or whose width or height is not positive is rejected before any board   *)
(* exists: a board, whole or partial, is only ever there for a valid       *)
(* configuration, and a rejected confirmation leaves no board behind.      *)
InvalidConfigBuildsNoBoard ==
    /\ (tiles # Unmounted \/ tileStates # Unmounted \/ gameStarted)
       => /\ width >= 1 /\ height >= 1
          /\ numBombs >= 1 /\ numBombs <= width * height - 1
          /\ DOMAIN tiles = 0..(width * height - 1)
          /\ DOMAIN tileStates = DOMAIN tiles
          /\ \E i \in Indices : tiles[i].type # "bomb"
    /\ last.op = "onConfirm"
       => ~gameStarted /\ tiles = Unmounted /\ tileStates = Unmounted

InvalidConfigBuildsNoBoardWitness ==
    /\ last.op = "onConfirm"
    /\ ~gameStarted
    /\ tiles = Unmounted

(* C12: a reveal or toggleFlag with an index outside the grid fails with  *)
(* an error, does not clamp the index, and leaves the per-cell state as it *)
(* was.                                                                    *)
OutOfRangeCallFailsCleanly ==
    [][\A index \in OutOfRange :
          (uncoverTileOutOfRange(index) \/ toggleFlagOutOfRange(index))
          => /\ error' # "none"
             /\ tileStates' = tileStates
             /\ tiles' = tiles]_vars

(* C13: every game starts, also after a restart, with a freshly generated *)
(* layout, every tile closed and unflagged and no outcome reported; a      *)
(* restart discards the previous game's layout, tile states and outcome.   *)
NewGameStartsFresh ==
    /\ last.op = "onConfig"
       => /\ gameStarted
          /\ tiles \in generateInitialGrid(width, height, numBombs)
          /\ DOMAIN tileStates = DOMAIN tiles
          /\ OpenSet(tileStates) = {}
          /\ FlaggedSet(tileStates) = {}
          /\ ~gameOver /\ ~didWin
    /\ last.op = "onRestart"
       => /\ ~gameStarted
          /\ tiles = Unmounted /\ tileStates = Unmounted
          /\ ~gameOver /\ ~didWin

\* A game has been played to its end (width is no longer the default) and
\* the restart has discarded it; the next game starts from here.
NewGameStartsFreshWitness ==
    /\ last.op = "onRestart"
    /\ width # DefaultWidth
    /\ ~gameStarted
    /\ tileStates = Unmounted

\* The configurations within the bounds that the configuration screen accepts.
ValidConfigs ==
    {c \in (1..MaxWidth) \X (1..MaxHeight) \X (1..MaxBombs) :
        c[1] * c[2] <= MaxCells /\ c[3] <= c[1] * c[2] - 1}

RECURSIVE OneByOne(_, _)
OneByOne(states, calls) ==
    IF calls = <<>>
    THEN states
    ELSE LET c == Head(calls)
             next == IF c.op = "toggleFlag"
                     THEN toggleFlagUpdater(states, c.index)
                     ELSE uncoverTileCall(tiles, width, height, states, c.index).tileStates
         IN  OneByOne(next, Tail(calls))

(* C15: every player action is applied atomically to the current board:    *)
(* when handler calls follow each other before React has rendered, the     *)
(* rendered tile states hold the effects of all of them, none overwritten. *)
BatchedActionsAllApplied ==
    [][(queue # <<>> /\ queue' = <<>> /\ gameStarted')
          => tileStates' = OneByOne(tileStates, queue)]_vars

(* C16: the cascade of any reveal ends on every board: it sets isOpen on   *)
(* each index at most once, never on a tile that was open already, and so  *)
(* on at most width*height tiles.                                          *)
CascadeMarksEachTileOnce ==
    \A i \in Indices :
        LET run == cascadeMarks(tiles, width, height,
                                [states |-> tileStates, marks |-> <<>>], i)
        IN  /\ run.states = cascade(tiles, width, height, tileStates, i)
            /\ \A a, b \in 1..Len(run.marks) : a # b => run.marks[a] # run.marks[b]
            /\ \A a \in 1..Len(run.marks) : ~tileStates[run.marks[a]].isOpen
            /\ Len(run.marks) <= width * height
            /\ OpenSet(run.states) = OpenSet(tileStates) \cup {run.marks[a] : a \in 1..Len(run.marks)}

CascadeMarksEachTileOnceWitness ==
    /\ gameStarted /\ ~gameOver
    /\ width >= 2 /\ height >= 2
    /\ last = [op |-> "uncoverTile", setTileStates |-> 1, onGameOver |-> <<>>]
    /\ \E i \in Indices :
          /\ tiles[i].type = "empty"
          /\ OpenSet(tileStates) = RevealRegion(i)
          /\ Cardinality(OpenSet(tileStates)) >= 4

(* C17: neighbours are clipped at the grid's edges and never wrap: for    *)
(* every tile, countAdjacentBombs counts exactly the bombs at the tile and *)
(* at the in-grid cells that touch it, and every tile a cascade opens      *)
(* besides its start touches, row and column, an empty tile it opened; the *)
(* end of a row is no neighbour of the start of the next row.              *)
NeighboursClippedAtEdges ==
    \A i \in Indices :
        LET opened == OpenSet(cascade(tiles, width, height, tileStates, i))
                          \ OpenSet(tileStates)
        IN  /\ countAdjacentBombs(i, tiles, width, height)
                  = Cardinality({b \in Bombs(tiles) : b = i \/ Adjacent(i, b, width)})
            /\ opened \subseteq Indices
            /\ \A m \in opened \ {i} :
                  \E e \in opened : tiles[e].type = "empty" /\ Adjacent(e, m, width)
            /\ (i % width = width - 1 /\ i + 1 \in Indices /\ width >= 3
                    /\ tiles[i].type = "empty" /\ ~tileStates[i].isOpen)
                  => \A m \in opened : m % width # 0

\* The end of a row is an open empty tile, the start of the next row is a
\* bomb, and a tile a wrapped neighbourhood would have reached is closed.
NeighboursClippedAtEdgesWitness ==
    /\ gameStarted /\ ~gameOver
    /\ width >= 3
    /\ last = [op |-> "uncoverTile", setTileStates |-> 1, onGameOver |-> <<>>]
    /\ \E a \in Indices :
          /\ a % width = width - 1
          /\ a + 1 \in Indices
          /\ tiles[a + 1].type = "bomb"
          /\ tiles[a].type = "empty"
          /\ tileStates[a].isOpen
          /\ a - width + 1 \in Indices
          /\ tiles[a - width + 1].type = "number"
          /\ ~tileStates[a - width + 1].isOpen

(* C18: in every state that reveals and flag toggles lead to, each in-grid *)
(* neighbour, diagonal ones included, of an open empty tile is open too.   *)
OpenEmptyTilesHaveOpenNeighbours ==
    gameStarted =>
        \A i \in Indices :
            (tiles[i].type = "empty" /\ tileStates[i].isOpen)
                => \A j \in Indices : Adjacent(i, j, width) => tileStates[j].isOpen

\* A cascade has opened an empty tile and a number tile that touches it
\* only by a corner, and left a tile outside its region closed.
OpenEmptyTilesHaveOpenNeighboursWitness ==
    /\ gameStarted /\ ~gameOver
    /\ last = [op |-> "uncoverTile", setTileStates |-> 1, onGameOver |-> <<>>]
    /\ \E i, j \in Indices :
          /\ tiles[i].type = "empty" /\ tileStates[i].isOpen
          /\ Adjacent(i, j, width)
          /\ i \div width # j \div width
          /\ i % width # j % width
          /\ tiles[j].type = "number" /\ tileStates[j].isOpen
    /\ \E c \in Indices : tiles[c].type # "bomb" /\ ~tileStates[c].isOpen

(* C19: after every step the bombs are open all or none; none is open     *)
(* while the game is in progress; and a bomb that is open was open before  *)
(* the step in the same game or the step itself reported Lost.             *)
BombsOpenAllOrNoneAndOnlyAfterLoss ==
    [][gameStarted' =>
          LET open == Bombs(tiles') \cap OpenSet(tileStates')
          IN  /\ open = {} \/ open = Bombs(tiles')
              /\ ~gameOver' => open = {}
              /\ open # {} =>
                    \/ last'.onGameOver = <<FALSE>>
                    \/ /\ gameStarted /\ gameOver
                       /\ tiles' = tiles
                       /\ open = Bombs(tiles) \cap OpenSet(tileStates)]_vars

BombsOpenAllOrNoneAndOnlyAfterLossWitness ==
    /\ gameStarted /\ gameOver /\ ~didWin
    /\ last = [op |-> "uncoverTile", setTileStates |-> 1, onGameOver |-> <<FALSE>>]
    /\ Cardinality(Bombs(tiles)) >= 2
    /\ Bombs(tiles) \cap OpenSet(tileStates) = Bombs(tiles)
    /\ Bombs(tiles) \cap FlaggedSet(tileStates) # {}
    /\ Bombs(tiles) \ FlaggedSet(tileStates) # {}

(* C20: through every run of the game loop, gameOver implies gameStarted   *)
(* and didWin implies gameOver; the game-over screen is never rendered     *)
(* together with the configuration screen; and onRestart leaves the        *)
(* configuration screen rendered with gameOver and didWin false.           *)
GameLoopFlagsConsistent ==
    /\ gameOver => gameStarted
    /\ didWin => gameOver
    /\ ~(GameOverScreenShown /\ GameConfigScreenShown)
    /\ GameOverScreenShown => GameGridShown
    /\ last.op = "onRestart" =>
          /\ GameConfigScreenShown /\ ~GameGridShown /\ ~GameOverScreenShown
          /\ ~gameOver /\ ~didWin

\* onRestart has ended a configured game and the configuration screen is back.
GameLoopFlagsConsistentWitness ==
    /\ last.op = "onRestart"
    /\ GameConfigScreenShown
    /\ width * height <= MaxCells
    /\ numBombs >= 2

====
